---- MODULE Spec2Model ----
(***************************************************************************)
(* Model of boringtun/src/device/peer.rs: the Peer's lock-guarded Endpoint *)
(* {addr, conn}, its three mutators set_endpoint, connect_endpoint and     *)
(* shutdown_endpoint, and the SOCKS5 UDP-ASSOCIATE exchange that           *)
(* connect_endpoint performs while it holds the write lock.                *)
(*                                                                         *)
(* Option<T> is a sequence of length 0 (None) or 1 (Some(x)).              *)
(* A socket2::Socket is an index into the table socks; try_clone yields a  *)
(* second handle to the same socket, so both handles are the same index.   *)
(* Every platform call (socket, bind, connect, read, write, shutdown ...)  *)
(* either succeeds or fails; the model takes both outcomes.                *)
(***************************************************************************)
EXTENDS Integers, Sequences, FiniteSets, TLC

\* ------------------------------------------------------------------ bounds

\* Sockets one Peer creates over its lifetime (socket creation is disabled after).
MaxSocks == 2

\* ------------------------------------------------------------------ values

None == << >>
Some(x) == << x >>
IsSome(o) == Len(o) = 1
Unwrap(o) == o[1]

\* Worker contexts that share one Peer.
Threads == {"rx", "ctl"}

V4(ip, port) == [fam |-> "V4", ip |-> ip, port |-> port]
V6(ip, port) == [fam |-> "V6", ip |-> ip, port |-> port]

Ip4Bytes == <<192, 0, 2, 7>>
Ip6Bytes == <<32, 1, 13, 184, 0, 0, 0, 0, 0, 0, 0, 0, 0, 0, 0, 9>>

\* Addresses a caller passes to Peer::new and set_endpoint.
PeerAddrs == { V4(<<10, 0, 0, 1>>, 51820), V6(Ip6Bytes, 51820) }

\* Local ports a caller passes to connect_endpoint.
Ports == {258, 51820}

\* u16::MAX, the largest port
MaxPort == 65535

\* fwmark arguments.
Fwmarks == {None, Some(51)}

\* Proxy arguments: None, or Some(ProxyConfig {proxy_type, address}).
Proxies ==
    { None,
      Some([proxy_type |-> "socks5", address |-> "127.0.0.1:1080"]),
      Some([proxy_type |-> "socks5", address |-> "proxy.example:1080"]),
      Some([proxy_type |-> "http", address |-> "127.0.0.1:1080"]),
      Some([proxy_type |-> "shadowsocks", address |-> "127.0.0.1:1080"]) }

\* What the proxy may send as its 2-byte method-selection reply.
GreetingReplies == { <<5, 0>>, <<5, 255>>, <<5, 2>>, <<4, 0>> }

\* What the proxy may send as the 4-byte UDP-ASSOCIATE reply header.
HeaderReplies ==
    { <<5, 0, 0, 1>>, <<5, 0, 0, 4>>, <<5, 0, 9, 1>>,
      <<5, 0, 0, 3>>, <<5, 0, 0, 7>>,
      <<5, 1, 0, 1>>, <<5, 7, 0, 7>>, <<4, 0, 0, 1>>, <<4, 0, 0, 7>> }

\* What the proxy may send as BND.PORT.
PortReplies == { <<1, 2>>, <<202, 108>> }

\* The target the crate is compiled for (cfg(target_os) of line 221).
TargetOs == "linux"

\* ------------------------------------------------------------------ state

VARIABLES
    addr,       \* Endpoint.addr : Option<SocketAddr>
    conn,       \* Endpoint.conn : Option<Socket>
    socks,      \* the sockets created so far, by index
    nsock,      \* how many sockets have been created
    writer,     \* RwLock: the thread holding the write guard, as an Option
    readers,    \* RwLock: the threads holding a read guard
    pc,         \* each thread's position
    loc,        \* each thread's arguments and locals of the call in progress
    allowed_ips, \* Peer.allowed_ips : AllowedIps<()>
    new_ips,    \* the allowed_ips slice Peer::new was given
    parse       \* a call of AllowedIP::from_str: its input and its result

vars == <<addr, conn, socks, nsock, writer, readers, pc, loc,
          allowed_ips, new_ips, parse>>

\* What no endpoint operation touches.
fixed == <<allowed_ips, new_ips, parse>>

\* A slot of the socket table before socket() has filled it.
NoSock ==
    [st |-> "unused", domain |-> "-", ty |-> "-", proto |-> "-",
     reuse |-> FALSE, bind |-> None, peer |-> None,
     nonblocking |-> FALSE, mark |-> None, shut |-> "none", target |-> None]

\* Locals of a thread that is in no call.
NoLoc ==
    [op |-> "none", arg |-> None, port |-> 0, fwmark |-> None, proxy |-> None,
     pre |-> <<None, None>>, target |-> None, proxy_addr |-> None,
     stream |-> "none", ntcp |-> 0, sent |-> << >>, nread |-> 0,
     resp |-> << >>, hdr |-> << >>, addr_bytes |-> << >>, port_bytes |-> << >>,
     relay |-> None, udp |-> 0, old |-> 0,
     ret |-> [kind |-> "none", msg |-> "", sock |-> 0],
     trace |-> << >>]

Ok(s) == [kind |-> "Ok", msg |-> "", sock |-> s]
Err(m) == [kind |-> "Err", msg |-> m, sock |-> 0]
Panic(m) == [kind |-> "Panic", msg |-> m, sock |-> 0]

\* Peer::new: addr is the bootstrap endpoint, conn is None, the lock is free.
\* --------------------------------------------------------------- AllowedIP

\* Text is a sequence of one-character strings.
DigitChars == <<"0", "1", "2", "3", "4", "5", "6", "7", "8", "9">>
IsDigit(c) == \E i \in 1..10 : DigitChars[i] = c
DigitVal(c) == (CHOOSE i \in 1..10 : DigitChars[i] = c) - 1

RECURSIVE Decimal(_)
Decimal(d) ==
    IF d = << >> THEN 0
    ELSE Decimal(SubSeq(d, 1, Len(d) - 1)) * 10 + DigitVal(d[Len(d)])

\* str::split(sep): the fields between the separators, empty ones included.
Split(s, sep) ==
    LET at == { i \in 1..Len(s) : s[i] = sep }
        n == Cardinality(at)
        cut(k) == IF k = 0 THEN 0
                  ELSE IF k = n + 1 THEN Len(s) + 1
                  ELSE CHOOSE i \in at : Cardinality({ j \in at : j <= i }) = k
    IN  [k \in 1..(n + 1) |-> SubSeq(s, cut(k - 1) + 1, cut(k) - 1)]

\* Digits without their leading zeros.
RECURSIVE StripZeros(_)
StripZeros(d) ==
    IF d # << >> /\ d[1] = "0" THEN StripZeros(Tail(d)) ELSE d

\* str::parse::<u8>(): an optional '+', then decimal digits; a value above
\* 255 overflows.
ParseU8(str) ==
    LET d == IF str # << >> /\ str[1] = "+" THEN Tail(str) ELSE str
    IN  IF d = << >> THEN None
        ELSE IF \E i \in 1..Len(d) : ~IsDigit(d[i]) THEN None
        ELSE IF Len(StripZeros(d)) > 3 \/ Decimal(StripZeros(d)) > 255 THEN None
        ELSE Some(Decimal(StripZeros(d)))

\* One field of a dotted quad: 1 to 3 digits, no leading zero, at most 255.
ParseOctet(f) ==
    IF Len(f) = 0 \/ Len(f) > 3 THEN None
    ELSE IF \E i \in 1..Len(f) : ~IsDigit(f[i]) THEN None
    ELSE IF Len(f) > 1 /\ f[1] = "0" THEN None
    ELSE IF Decimal(f) > 255 THEN None
    ELSE Some(Decimal(f))

ParseIpv4(str) ==
    LET f == Split(str, ".")
    IN  IF Len(f) # 4 THEN None
        ELSE IF \E i \in 1..4 : ParseOctet(f[i]) = None THEN None
        ELSE Some([fam |-> "V4", ip |-> [i \in 1..4 |-> Unwrap(ParseOctet(f[i]))]])

\* The IPv6 texts of the inputs below and the addresses they denote.
Ipv6Texts ==
    { << <<":", ":", "1">>,
         <<0, 0, 0, 0, 0, 0, 0, 0, 0, 0, 0, 0, 0, 0, 0, 1>> >>,
      << <<"2", "0", "0", "1", ":", "d", "b", "8", ":", ":", "9">>, Ip6Bytes >> }

ParseIpv6(str) ==
    IF \E e \in Ipv6Texts : e[1] = str
    THEN Some([fam |-> "V6", ip |-> (CHOOSE e \in Ipv6Texts : e[1] = str)[2]])
    ELSE None

\* str::parse::<IpAddr>()
ParseIpAddr(str) ==
    IF ParseIpv4(str) # None THEN ParseIpv4(str) ELSE ParseIpv6(str)

InvalidFormat == [kind |-> "Err", msg |-> "Invalid IP format"]

\* A prefix bound that does not depend on the address family.
MaxCidr_Always128(fam) == 128
MaxCidr(fam) == IF fam = "V4" THEN 32 ELSE 128

\* <AllowedIP as FromStr>::from_str
FromStr(s) ==
    LET ip == Split(s, "/")
    IN  IF Len(ip) # 2 THEN InvalidFormat
        ELSE LET a == ParseIpAddr(ip[1])
                 cidr == ParseU8(ip[2])
             IN  IF a # None /\ cidr # None /\ Unwrap(cidr) <= MaxCidr(Unwrap(a).fam)
                 THEN [kind |-> "Ok",
                       val |-> [addr |-> Unwrap(a), cidr |-> Unwrap(cidr)]]
                 ELSE InvalidFormat

\* Texts handed to from_str: address texts and prefix texts, joined by
\* zero, one or two separators.
AddrTexts ==
    { <<"1", "0", ".", "0", ".", "0", ".", "1">>,
      <<"2", "5", "5", ".", "2", "5", "5", ".", "2", "5", "5", ".", "0">>,
      <<"2", "5", "6", ".", "0", ".", "0", ".", "1">>,
      <<"1", "0", ".", "0", ".", "0">>,
      <<"1", "0", ".", "0", ".", "0", ".", "0", "1">>,
      <<"1", "0", ".", "0", ".", "0", ".", "1", ".", "2">>,
      <<":", ":", "1">>,
      <<"2", "0", "0", "1", ":", "d", "b", "8", ":", ":", "9">>,
      <<"h", "o", "s", "t">>,
      << >> }

CidrTexts ==
    { <<"0">>, <<"8">>, <<"3", "2">>, <<"3", "3">>, <<"6", "4">>,
      <<"1", "2", "8">>, <<"1", "2", "9">>, <<"2", "5", "5">>, <<"2", "5", "6">>,
      <<"0", "2", "4">>, <<"+", "8">>, <<"-", "1">>, <<"+">>, <<"2", "4", " ">>,
      <<"0", "0", "0", "0", "0", "0", "0", "0", "3", "2">>,
      <<"4", "2", "9", "4", "9", "6", "7", "2", "9", "6">>, <<"1", "2", "8", "0">>,
      <<"x">>, <<"1", "e", "1">>, << >> }

ParseInputs ==
    AddrTexts
    \cup { a \o <<"/">> \o c : a \in AddrTexts, c \in CidrTexts }
    \cup { a \o <<"/">> \o c \o <<"/">> \o c : a \in AddrTexts, c \in {<<"8">>, << >>} }

NoResult == [kind |-> "none"]

\* No call of from_str.
NoParse == [input |-> << >>, out |-> NoResult]

\* Ranges and addresses of the allowed-IP table.
Net(a, cidr) == [addr |-> a, cidr |-> cidr]
Ip4(b) == [fam |-> "V4", ip |-> b]
Ip6(b) == [fam |-> "V6", ip |-> b]

\* Lists a caller passes to Peer::new.
AllowedLists ==
    { << >>,
      << Net(Ip4(<<10, 0, 0, 0>>), 8) >>,
      << Net(Ip4(<<10, 0, 0, 0>>), 8), Net(Ip4(<<10, 1, 0, 0>>), 16) >>,
      << Net(Ip4(<<192, 168, 1, 77>>), 26), Net(Ip6(Ip6Bytes), 32) >>,
      << Net(Ip4(<<0, 0, 0, 0>>), 0) >>,
      << Net(Ip4(<<10, 1, 2, 3>>), 32), Net(Ip6(Ip6Bytes), 128) >>,
      << Net(Ip6(Ip6Bytes), 0), Net(Ip4(<<10, 0, 0, 0>>), 8) >> }

\* Addresses is_allowed_ip is asked about.
QueryAddrs ==
    { Ip4(<<10, 1, 2, 3>>), Ip4(<<10, 2, 0, 1>>), Ip4(<<11, 0, 0, 1>>),
      Ip4(<<192, 168, 1, 5>>), Ip4(<<192, 168, 1, 64>>), Ip4(<<192, 168, 1, 128>>),
      Ip6(Ip6Bytes),
      Ip6(<<32, 1, 13, 184, 0, 0, 0, 0, 0, 0, 0, 0, 0, 0, 0, 8>>),
      Ip6(<<32, 1, 13, 185, 0, 0, 0, 0, 0, 0, 0, 0, 0, 0, 0, 9>>),
      Ip6(<<0, 0, 0, 0, 0, 0, 0, 0, 0, 0, 0, 0, 0, 0, 0, 1>>) }

\* 2^n for n in 0..8
Pow2(n) == <<1, 2, 4, 8, 16, 32, 64, 128, 256>>[n + 1]

\* The leading `cidr` bits of an address, the rest cleared.
Truncate(ip, cidr) ==
    [i \in 1..Len(ip) |->
        IF 8 * i <= cidr THEN ip[i]
        ELSE IF 8 * (i - 1) >= cidr THEN 0
        ELSE LET drop == Pow2(8 - (cidr - 8 * (i - 1)))
             IN  (ip[i] \div drop) * drop]

\* AllowedIps<D>: a table from network prefixes to data.
\* FromIterator: one entry per range, keyed by its network prefix.
AllowedIps_Collect(items) ==
    { [fam |-> items[i][1].addr.fam,
       net |-> Truncate(items[i][1].addr.ip, items[i][1].cidr),
       cidr |-> items[i][1].cidr,
       data |-> items[i][2]] : i \in 1..Len(items) }

\* AllowedIps::find: the data of the longest prefix that matches.
AllowedIps_Find(table, a) ==
    LET m == { e \in table : e.fam = a.fam /\ Truncate(a.ip, e.cidr) = e.net }
    IN  IF m = {} THEN None
        ELSE Some((CHOOSE e \in m : \A f \in m : f.cidr <= e.cidr).data)

\* AllowedIps::iter: (data, network, cidr) of every entry.
AllowedIps_Iter(table) ==
    { <<e.data, [fam |-> e.fam, ip |-> e.net], e.cidr>> : e \in table }

\* Peer::new: allowed_ips.iter().map(|ip| (ip, ())).collect()
NewAllowedIps(list) ==
    AllowedIps_Collect([i \in 1..Len(list) |-> <<list[i], "()">>])

\* An answer that is true when no entry is found.
IsAllowedIp_IsNone(a) == ~IsSome(AllowedIps_Find(allowed_ips, a))
\* Peer::is_allowed_ip
IsAllowedIp(a) == IsSome(AllowedIps_Find(allowed_ips, a))

\* Peer::allowed_ips
AllowedIpsOf == { <<e[2], e[3]>> : e \in AllowedIps_Iter(allowed_ips) }

\* ------------------------------------------------------------------- Peer

\* Peer::new(tunnel, index, endpoint, allowed_ips, preshared_key)
New(endpoint, ips) ==
    /\ addr = endpoint
    /\ conn = None
    /\ socks = [i \in 1..MaxSocks |-> NoSock]
    /\ nsock = 0
    /\ writer = None
    /\ readers = {}
    /\ pc = [t \in Threads |-> "idle"]
    /\ loc = [t \in Threads |-> NoLoc]
    /\ allowed_ips = NewAllowedIps(ips)
    /\ new_ips = ips

Init ==
    /\ \E endpoint \in {None} \cup { Some(a) : a \in PeerAddrs } :
         New(endpoint, << >>)
    /\ parse = NoParse

\* ------------------------------------------------------------------ RwLock

\* A write lock that does not wait for other guards to be dropped.
WriteLock_NoExclusion(t) ==
    /\ writer' = Some(t)
    /\ UNCHANGED readers

\* RwLock::write returns once no guard of either kind is held.
WriteLock(t) ==
    /\ writer = None
    /\ readers = {}
    /\ writer' = Some(t)
    /\ UNCHANGED readers

\* A write guard that is never dropped.
WriteUnlock_Leaks(t) ==
    /\ writer = Some(t)
    /\ UNCHANGED <<writer, readers>>

\* Dropping the write guard.
WriteUnlock(t) ==
    /\ writer = Some(t)
    /\ writer' = None
    /\ UNCHANGED readers

\* A read lock that is granted while a write guard is held.
ReadLock_IgnoresWriter(t) ==
    /\ readers' = readers \cup {t}
    /\ UNCHANGED writer

\* RwLock::read returns once no write guard is held.
ReadLock(t) ==
    /\ writer = None
    /\ readers' = readers \cup {t}
    /\ UNCHANGED writer

\* A read guard that is never dropped.
ReadUnlock_Leaks(t) ==
    /\ t \in readers
    /\ UNCHANGED <<writer, readers>>

\* Dropping a read guard.
ReadUnlock(t) ==
    /\ t \in readers
    /\ readers' = readers \ {t}
    /\ UNCHANGED writer

\* ------------------------------------------------------------------ sockets

\* A shutdown that is forgotten.
ShutdownBoth_Skipped(tbl, s) == tbl

\* Socket::shutdown(Shutdown::Both) succeeding on socket s.
ShutdownBoth(tbl, s) == [tbl EXCEPT ![s].shut = "both"]

\* Dropping the Peer's handle to socket s: the descriptor and its options go.
DropSock(tbl, s) ==
    [tbl EXCEPT ![s] = [NoSock EXCEPT !.st = "closed", !.shut = tbl[s].shut,
                                      !.target = tbl[s].target]]

\* A read of the Option that leaves its value in place.
Take_Leaves(c) == c

\* Option::take: what is left in endpoint.conn once its value c is taken.
Take(c) == None

\* ------------------------------------------------------------------ endpoint()

\* Peer::endpoint is called.
Endpoint_Call(t) ==
    /\ pc[t] = "idle"
    /\ pc' = [pc EXCEPT ![t] = "ep_lock"]
    /\ loc' = [loc EXCEPT ![t] = [NoLoc EXCEPT !.op = "endpoint"]]
    /\ UNCHANGED <<addr, conn, socks, nsock, writer, readers>>
    /\ UNCHANGED fixed

\* self.endpoint.read(): the guard is returned; the snapshot is what it shows.
Endpoint_Read(t) ==
    /\ pc[t] = "ep_lock"
    /\ ReadLock(t)
    /\ pc' = [pc EXCEPT ![t] = "ep_held"]
    /\ loc' = [loc EXCEPT ![t].pre = <<addr, conn>>]
    /\ UNCHANGED <<addr, conn, socks, nsock>>
    /\ UNCHANGED fixed

\* The caller drops the read guard.
Endpoint_Release(t) ==
    /\ pc[t] = "ep_held"
    /\ ReadUnlock(t)
    /\ pc' = [pc EXCEPT ![t] = "idle"]
    /\ loc' = [loc EXCEPT ![t] = NoLoc]
    /\ UNCHANGED <<addr, conn, socks, nsock>>
    /\ UNCHANGED fixed

\* ------------------------------------------------------------------ return

\* A mutator returns (or unwinds): its guard is dropped, its locals die.
Return(t) ==
    /\ pc[t] \in {"se_ret", "sh_ret", "ce_ret"}
    /\ WriteUnlock(t)
    /\ pc' = [pc EXCEPT ![t] = "idle"]
    /\ loc' = [loc EXCEPT ![t] = NoLoc]
    /\ UNCHANGED <<addr, conn, socks, nsock>>
    /\ UNCHANGED fixed

\* ------------------------------------------------------------------ shutdown_endpoint

ShutdownEndpoint_Call(t) ==
    /\ pc[t] = "idle"
    /\ pc' = [pc EXCEPT ![t] = "sh_lock"]
    /\ loc' = [loc EXCEPT ![t] = [NoLoc EXCEPT !.op = "shutdown_endpoint"]]
    /\ UNCHANGED <<addr, conn, socks, nsock, writer, readers>>
    /\ UNCHANGED fixed

\* self.endpoint.write()
ShutdownEndpoint_Lock(t) ==
    /\ pc[t] = "sh_lock"
    /\ WriteLock(t)
    /\ pc' = [pc EXCEPT ![t] = "sh_body"]
    /\ loc' = [loc EXCEPT ![t].pre = <<addr, conn>>]
    /\ UNCHANGED <<addr, conn, socks, nsock>>
    /\ UNCHANGED fixed

\* conn.take(), then shutdown(Both).unwrap() on what was taken, then its drop.
ShutdownEndpoint_Body(t) ==
    /\ pc[t] = "sh_body"
    /\ IF IsSome(conn)
       THEN /\ conn' = Take(conn)
            /\ \E ok \in BOOLEAN :
                 /\ socks' = DropSock(IF ok THEN ShutdownBoth(socks, Unwrap(conn))
                                            ELSE socks, Unwrap(conn))
                 /\ loc' = [loc EXCEPT ![t].old = Unwrap(conn),
                                       ![t].ret = IF ok THEN Ok(0)
                                                  ELSE Panic("shutdown")]
       ELSE /\ loc' = [loc EXCEPT ![t].ret = Ok(0)]
            /\ UNCHANGED <<conn, socks>>
    /\ pc' = [pc EXCEPT ![t] = "sh_ret"]
    /\ UNCHANGED <<addr, nsock, writer, readers>>
    /\ UNCHANGED fixed

\* ------------------------------------------------------------------ set_endpoint

\* set_endpoint is called; its argument is bound where it is first read,
\* under the lock.
SetEndpoint_Call(t) ==
    /\ pc[t] = "idle"
    /\ loc' = [loc EXCEPT ![t] = [NoLoc EXCEPT !.op = "set_endpoint"]]
    /\ pc' = [pc EXCEPT ![t] = "se_lock"]
    /\ UNCHANGED <<addr, conn, socks, nsock, writer, readers>>
    /\ UNCHANGED fixed

\* let mut endpoint = self.endpoint.write();
SetEndpoint_Lock(t) ==
    /\ pc[t] = "se_lock"
    /\ WriteLock(t)
    /\ pc' = [pc EXCEPT ![t] = "se_body"]
    /\ \E a \in PeerAddrs :
         loc' = [loc EXCEPT ![t].pre = <<addr, conn>>, ![t].arg = Some(a)]
    /\ UNCHANGED <<addr, conn, socks, nsock>>
    /\ UNCHANGED fixed

\* A set_endpoint that never recognises its current address.
SameEndpoint_Never(cur, a) == FALSE

\* The test of set_endpoint: the current address is already a.
SameEndpoint(cur, a) == cur = Some(a)

\* if endpoint.addr != Some(addr) { take and shut conn down; endpoint.addr = Some(addr) }
SetEndpoint_Body(t) ==
    /\ pc[t] = "se_body"
    /\ IF ~SameEndpoint(addr, Unwrap(loc[t].arg))
       THEN IF IsSome(conn)
            THEN /\ conn' = Take(conn)
                 /\ \E ok \in BOOLEAN :
                      /\ socks' = DropSock(IF ok THEN ShutdownBoth(socks, Unwrap(conn))
                                                 ELSE socks, Unwrap(conn))
                      /\ addr' = IF ok THEN loc[t].arg ELSE addr
                      /\ loc' = [loc EXCEPT ![t].old = Unwrap(conn),
                                            ![t].ret = IF ok THEN Ok(0)
                                                       ELSE Panic("shutdown")]
            ELSE /\ addr' = loc[t].arg
                 /\ loc' = [loc EXCEPT ![t].ret = Ok(0)]
                 /\ UNCHANGED <<conn, socks>>
       ELSE /\ loc' = [loc EXCEPT ![t].ret = Ok(0)]
            /\ UNCHANGED <<addr, conn, socks>>
    /\ pc' = [pc EXCEPT ![t] = "se_ret"]
    /\ UNCHANGED <<nsock, writer, readers>>
    /\ UNCHANGED fixed

\* ------------------------------------------------------------------ conversions

\* The low byte first.
ToBeBytes_LittleEndian(p) == << p % 256, p \div 256 >>

\* u16::to_be_bytes
ToBeBytes(p) == << p \div 256, p % 256 >>

\* u16::from_be_bytes
FromBeBytes(b) == b[1] * 256 + b[2]

\* Domain::for_address
DomainFor(a) == IF a.fam = "V4" THEN "IPV4" ELSE "IPV6"

\* Ipv4Addr::UNSPECIFIED / Ipv6Addr::UNSPECIFIED with the caller's port.
Wildcard(a, port) ==
    IF a.fam = "V4" THEN V4(<<0, 0, 0, 0>>, port)
    ELSE V6(<<0, 0, 0, 0, 0, 0, 0, 0, 0, 0, 0, 0, 0, 0, 0, 0>>, port)

\* str::parse::<SocketAddr>: an "ip:port" literal parses, a host name does not.
ParseSocketAddr(s) ==
    IF s = "127.0.0.1:1080" THEN Some(V4(<<127, 0, 0, 1>>, 1080)) ELSE None

\* cfg(any(target_os = "android", target_os = "fuchsia", target_os = "linux"))
MarkSupported == TargetOs \in {"android", "fuchsia", "linux"}

\* The first n elements of a sequence.
Prefix(s, n) == SubSeq(s, 1, n)

\* ------------------------------------------------------------------ connect_endpoint

\* The locals l with one more step recorded in the trace of the call.
Did(l, step) == [l EXCEPT !.trace = Append(l.trace, step)]

\* The socket type connect_endpoint asks socket2::Socket::new for.
UdpSocketType == "STREAM"

\* socket2::Socket::new(domain, Type::STREAM, Some(Protocol::UDP)) succeeding,
\* in a call that read the endpoint address target.
NewSock(domain, target) ==
    [NoSock EXCEPT !.st = "open", !.domain = domain,
                   !.ty = UdpSocketType, !.proto = "UDP", !.target = target]

\* An early return with result r: the locals are dropped (the TcpStream and a
\* UDP socket not yet stored are closed); the guard is dropped by Return.
Leave(t, l, r) ==
    /\ loc' = [loc EXCEPT ![t] =
                 [l EXCEPT !.ret = r,
                           !.stream = IF l.stream = "open" THEN "closed" ELSE l.stream]]
    /\ socks' = IF l.udp # 0 THEN DropSock(socks, l.udp) ELSE socks
    /\ pc' = [pc EXCEPT ![t] = "ce_ret"]

\* The call goes on at position p with locals l.
Goto(t, l, p) ==
    /\ loc' = [loc EXCEPT ![t] = l]
    /\ pc' = [pc EXCEPT ![t] = p]

\* connect_endpoint is called; its arguments are bound where they are first
\* read, under the lock.
ConnectEndpoint_Call(t) ==
    /\ pc[t] = "idle"
    /\ loc' = [loc EXCEPT ![t] = [NoLoc EXCEPT !.op = "connect_endpoint"]]
    /\ pc' = [pc EXCEPT ![t] = "ce_lock"]
    /\ UNCHANGED <<addr, conn, socks, nsock, writer, readers>>
    /\ UNCHANGED fixed

\* let mut endpoint = self.endpoint.write();
ConnectEndpoint_LockWith(t, ports, fwmarks, proxies) ==
    /\ pc[t] = "ce_lock"
    /\ WriteLock(t)
    /\ pc' = [pc EXCEPT ![t] = "ce_check"]
    /\ \E port \in ports, fwmark \in fwmarks, proxy \in proxies :
         loc' = [loc EXCEPT ![t].pre = <<addr, conn>>,
                            ![t].port = port,
                            ![t].fwmark = fwmark,
                            ![t].proxy = proxy]
    /\ UNCHANGED <<addr, conn, socks, nsock>>
    /\ UNCHANGED fixed

\* let mut endpoint = self.endpoint.write(), with any of the arguments above.
ConnectEndpoint_Lock(t) == ConnectEndpoint_LockWith(t, Ports, Fwmarks, Proxies)

\* A connect_endpoint without its is_some() check.
AlreadyConnected_Unchecked(c) == FALSE

\* if endpoint.conn.is_some() { return Err(Error::Connect("Connected")) }
AlreadyConnected(c) == IsSome(c)

\* The conn.is_some() check, addr.expect(..) and the dispatch on the proxy type.
ConnectEndpoint_Check(t) ==
    /\ pc[t] = "ce_check"
    /\ LET l == Did(loc[t], "check") IN
       IF AlreadyConnected(conn)
       THEN Leave(t, l, Err("Connected"))
       ELSE IF ~IsSome(addr)
       THEN Leave(t, l, Panic("Attempt to connect to undefined endpoint"))
       ELSE /\ Goto(t, [l EXCEPT !.target = addr],
                    IF IsSome(l.proxy) /\ Unwrap(l.proxy).proxy_type = "socks5"
                    THEN "ce_parse" ELSE "ce_direct")
            /\ UNCHANGED socks
    /\ UNCHANGED <<addr, conn, nsock, writer, readers>>
    /\ UNCHANGED fixed

\* proxy_cfg.address.parse()
ConnectEndpoint_ParseProxy(t) ==
    /\ pc[t] = "ce_parse"
    /\ LET l == Did(loc[t], "parse_proxy_addr")
           a == ParseSocketAddr(Unwrap(l.proxy).address) IN
       IF IsSome(a)
       THEN /\ Goto(t, [l EXCEPT !.proxy_addr = a], "ce_tcp")
            /\ UNCHANGED socks
       ELSE Leave(t, l, Err("Invalid proxy address"))
    /\ UNCHANGED <<addr, conn, nsock, writer, readers>>
    /\ UNCHANGED fixed

\* TcpStream::connect(proxy_addr)
ConnectEndpoint_TcpConnect(t) ==
    /\ pc[t] = "ce_tcp"
    /\ LET l == [Did(loc[t], "tcp_connect") EXCEPT !.ntcp = @ + 1] IN
       \/ /\ Goto(t, [l EXCEPT !.stream = "open"], "ce_greet")
          /\ UNCHANGED socks
       \/ Leave(t, l, Err("Failed to connect to proxy"))
    /\ UNCHANGED <<addr, conn, nsock, writer, readers>>
    /\ UNCHANGED fixed

\* stream.write_all(bytes): all of bytes, or an error after a proper prefix.
WriteAll(t, step, bytes, next) ==
    LET l == Did(loc[t], step) IN
    \/ /\ Goto(t, [l EXCEPT !.sent = @ \o bytes], next)
       /\ UNCHANGED socks
    \/ \E n \in 0..(Len(bytes) - 1) :
         Leave(t, [l EXCEPT !.sent = @ \o Prefix(bytes, n)], Err("io"))

\* stream.write_all(&[0x05, 0x01, 0x00])
ConnectEndpoint_SendGreeting(t) ==
    /\ pc[t] = "ce_greet"
    /\ WriteAll(t, "send_greeting", <<5, 1, 0>>, "ce_greet_read")
    /\ UNCHANGED <<addr, conn, nsock, writer, readers>>
    /\ UNCHANGED fixed

\* stream.read_exact(&mut response)
ConnectEndpoint_ReadGreeting(t) ==
    /\ pc[t] = "ce_greet_read"
    /\ LET l == Did(loc[t], "read_greeting") IN
       \/ \E r \in GreetingReplies :
            /\ Goto(t, [l EXCEPT !.resp = r, !.nread = @ + 2], "ce_greet_check")
            /\ UNCHANGED socks
       \/ Leave(t, l, Err("io"))
    /\ UNCHANGED <<addr, conn, nsock, writer, readers>>
    /\ UNCHANGED fixed

\* A greeting check that looks at the version byte only.
GreetingOk_VersionOnly(response) == response[1] = 5

\* The method-selection reply the client accepts: version 5, method "no auth".
GreetingOk(response) == ~(response[1] # 5 \/ response[2] # 0)

\* if response[0] != 0x05 || response[1] != 0x00 { return Err(..) }
ConnectEndpoint_CheckGreeting(t) ==
    /\ pc[t] = "ce_greet_check"
    /\ LET l == Did(loc[t], "check_greeting") IN
       IF ~GreetingOk(l.resp)
       THEN Leave(t, l, Err("SOCKS5 handshake failed"))
       ELSE /\ Goto(t, l, "ce_req")
            /\ UNCHANGED socks
    /\ UNCHANGED <<addr, conn, nsock, writer, readers>>
    /\ UNCHANGED fixed

\* The UDP ASSOCIATE request: VER CMD RSV ATYP, 0.0.0.0, the port big-endian.
AssociateRequest(port) == <<5, 3, 0, 1>> \o <<0, 0, 0, 0>> \o ToBeBytes(port)

\* stream.write_all(&request)
ConnectEndpoint_SendRequest(t) ==
    /\ pc[t] = "ce_req"
    /\ WriteAll(t, "send_request", AssociateRequest(loc[t].port), "ce_hdr_read")
    /\ UNCHANGED <<addr, conn, nsock, writer, readers>>
    /\ UNCHANGED fixed

\* stream.read_exact(&mut resp)
ConnectEndpoint_ReadHeader(t) ==
    /\ pc[t] = "ce_hdr_read"
    /\ LET l == Did(loc[t], "read_header") IN
       \/ \E h \in HeaderReplies :
            /\ Goto(t, [l EXCEPT !.hdr = h, !.nread = @ + 4], "ce_hdr_check")
            /\ UNCHANGED socks
       \/ Leave(t, l, Err("io"))
    /\ UNCHANGED <<addr, conn, nsock, writer, readers>>
    /\ UNCHANGED fixed

\* The error of a refused UDP ASSOCIATE, with the reply's REP byte.
AssociateFailed(rep) == Err("SOCKS5 UDP ASSOCIATE failed: REP=" \o ToString(rep))

\* A header check that looks at the version byte only.
AssociateOk_VersionOnly(resp) == resp[1] = 5

\* The reply header the client accepts: version 5, REP 0 (succeeded).
AssociateOk(resp) == ~(resp[1] # 5 \/ resp[2] # 0)

\* if resp[0] != 0x05 || resp[1] != 0x00 { return Err(..REP=resp[1]) }
ConnectEndpoint_CheckHeader(t) ==
    /\ pc[t] = "ce_hdr_check"
    /\ LET l == Did(loc[t], "check_header") IN
       IF ~AssociateOk(l.hdr)
       THEN Leave(t, l, AssociateFailed(l.hdr[2]))
       ELSE /\ Goto(t, l, "ce_relay_addr")
            /\ UNCHANGED socks
    /\ UNCHANGED <<addr, conn, nsock, writer, readers>>
    /\ UNCHANGED fixed

\* A match whose `_` arm reads an IPv6 address.
AddrLen_DefaultV6(atyp) == IF atyp = 1 THEN 4 ELSE 16

\* match resp[3]: how many address bytes follow, 0 for the `_` arm.
AddrLen(atyp) == IF atyp = 1 THEN 4 ELSE IF atyp = 4 THEN 16 ELSE 0

\* What the proxy may send as BND.ADDR when n bytes are read.
AddrReplies(n) == IF n = 4 THEN {Ip4Bytes} ELSE {Ip6Bytes}

\* match resp[3]: the address bytes of the relay, 4 (IPv4) or 16 (IPv6).
ConnectEndpoint_ReadRelayAddr(t) ==
    /\ pc[t] = "ce_relay_addr"
    /\ LET l == Did(loc[t], "read_relay_addr")
           n == AddrLen(l.hdr[4]) IN
       IF n # 0
       THEN \/ \E ab \in AddrReplies(n) :
                 /\ Goto(t, [l EXCEPT !.addr_bytes = ab, !.nread = @ + n],
                         "ce_relay_port")
                 /\ UNCHANGED socks
            \/ Leave(t, l, Err("io"))
       ELSE Leave(t, l, Err("Unsupported address type in SOCKS5 response"))
    /\ UNCHANGED <<addr, conn, nsock, writer, readers>>
    /\ UNCHANGED fixed

\* SocketAddr::new(IpAddr::from(addr_bytes), u16::from_be_bytes(port_bytes))
RelayAddr(atyp, addr_bytes, port_bytes) ==
    IF atyp = 1 THEN V4(addr_bytes, FromBeBytes(port_bytes))
    ELSE V6(addr_bytes, FromBeBytes(port_bytes))

\* The two port bytes of the relay, then the relay address is built.
ConnectEndpoint_ReadRelayPort(t) ==
    /\ pc[t] = "ce_relay_port"
    /\ LET l == Did(loc[t], "read_relay_port") IN
       \/ \E pb \in PortReplies :
            /\ Goto(t, [l EXCEPT !.port_bytes = pb, !.nread = @ + 2,
                                 !.relay = Some(RelayAddr(l.hdr[4], l.addr_bytes, pb))],
                    "ce_close")
            /\ UNCHANGED socks
       \/ Leave(t, l, Err("io"))
    /\ UNCHANGED <<addr, conn, nsock, writer, readers>>
    /\ UNCHANGED fixed

\* A TcpStream that stays open until the end of the function.
DropStream_KeepsOpen(stream) == stream

\* drop(stream): the TCP connection is closed.
DropStream(stream) == "closed"

\* drop(stream)
ConnectEndpoint_DropStream(t) ==
    /\ pc[t] = "ce_close"
    /\ Goto(t, [Did(loc[t], "close_tcp") EXCEPT !.stream = DropStream(@)], "ce_sock")
    /\ UNCHANGED <<addr, conn, socks, nsock, writer, readers>>
    /\ UNCHANGED fixed

\* socket2::Socket::new(domain, ..) for the address a; on success the new
\* socket is the local udp and the call goes on at position next.
CreateSocket(t, step, a, next, failure) ==
    LET l == Did(loc[t], step) IN
    \/ /\ nsock < MaxSocks
       /\ nsock' = nsock + 1
       /\ socks' = [socks EXCEPT ![nsock + 1] = NewSock(DomainFor(a), l.target)]
       /\ Goto(t, [l EXCEPT !.udp = nsock + 1], next)
    \/ /\ Leave(t, l, failure)
       /\ UNCHANGED nsock

\* Socket::new(Domain::for_address(relay_addr), ..) on the SOCKS5 path.
ConnectEndpoint_NewRelaySocket(t) ==
    /\ pc[t] = "ce_sock"
    /\ CreateSocket(t, "socket", Unwrap(loc[t].relay), "ce_reuse",
                    Err("Failed to create UDP socket"))
    /\ UNCHANGED <<addr, conn, writer, readers>>
    /\ UNCHANGED fixed

\* A call on the local socket udp: on success the socket is f of what it was.
SockCall(t, step, upd, next) ==
    LET l == Did(loc[t], step) IN
    \/ /\ socks' = [socks EXCEPT ![l.udp] = upd]
       /\ Goto(t, l, next)
    \/ Leave(t, l, Err("io"))

\* udp_socket.set_reuse_address(true)
ConnectEndpoint_SetReuse(t) ==
    /\ pc[t] = "ce_reuse"
    /\ SockCall(t, "set_reuse_address",
                [socks[loc[t].udp] EXCEPT !.reuse = TRUE], "ce_bind")
    /\ UNCHANGED <<addr, conn, nsock, writer, readers>>
    /\ UNCHANGED fixed

\* udp_socket.bind(&bind_addr), bind_addr the wildcard of the relay's family.
ConnectEndpoint_Bind(t) ==
    /\ pc[t] = "ce_bind"
    /\ SockCall(t, "bind",
                [socks[loc[t].udp] EXCEPT
                   !.bind = Some(Wildcard(Unwrap(loc[t].relay), loc[t].port))],
                "ce_udp_connect")
    /\ UNCHANGED <<addr, conn, nsock, writer, readers>>
    /\ UNCHANGED fixed

\* udp_socket.connect(&relay_addr.into())
ConnectEndpoint_UdpConnect(t) ==
    /\ pc[t] = "ce_udp_connect"
    /\ SockCall(t, "connect",
                [socks[loc[t].udp] EXCEPT !.peer = loc[t].relay], "ce_nonblock")
    /\ UNCHANGED <<addr, conn, nsock, writer, readers>>
    /\ UNCHANGED fixed

\* The "http", unknown-type and no-proxy arms: Socket::new for the peer's addr.
ConnectEndpoint_Direct(t) ==
    /\ pc[t] = "ce_direct"
    /\ CreateSocket(t, "socket", Unwrap(loc[t].target), "ce_nonblock", Err("io"))
    /\ UNCHANGED <<addr, conn, writer, readers>>
    /\ UNCHANGED fixed

\* udp_conn.set_nonblocking(true)
ConnectEndpoint_SetNonblocking(t) ==
    /\ pc[t] = "ce_nonblock"
    /\ SockCall(t, "set_nonblocking",
                [socks[loc[t].udp] EXCEPT !.nonblocking = TRUE], "ce_mark")
    /\ UNCHANGED <<addr, conn, nsock, writer, readers>>
    /\ UNCHANGED fixed

\* if let Some(fwmark) = fwmark { udp_conn.set_mark(fwmark)?; } where compiled in.
ConnectEndpoint_SetMark(t) ==
    /\ pc[t] = "ce_mark"
    /\ IF MarkSupported /\ IsSome(loc[t].fwmark)
       THEN SockCall(t, "set_mark",
                     [socks[loc[t].udp] EXCEPT !.mark = loc[t].fwmark], "ce_store")
       ELSE /\ Goto(t, loc[t], "ce_store")
            /\ UNCHANGED socks
    /\ UNCHANGED <<addr, conn, nsock, writer, readers>>
    /\ UNCHANGED fixed

\* A connect_endpoint that returns the socket without storing a handle.
StoredHandle_Forgotten(s) == None

\* The handle that goes into endpoint.conn when udp_conn is the socket s.
StoredHandle(s) == Some(s)

\* endpoint.conn = Some(udp_conn.try_clone().unwrap()); Ok(udp_conn)
ConnectEndpoint_Store(t) ==
    /\ pc[t] = "ce_store"
    /\ LET l == Did(loc[t], "store") IN
       \/ /\ conn' = StoredHandle(l.udp)
          /\ loc' = [loc EXCEPT ![t] = [l EXCEPT !.ret = Ok(l.udp)]]
          /\ pc' = [pc EXCEPT ![t] = "ce_ret"]
          /\ UNCHANGED socks
       \/ /\ Leave(t, l, Panic("try_clone"))
          /\ UNCHANGED conn
    /\ UNCHANGED <<addr, nsock, writer, readers>>
    /\ UNCHANGED fixed

\* ------------------------------------------------------------------ specification

Next ==
    \E t \in Threads :
        \/ Endpoint_Call(t)
        \/ Endpoint_Read(t)
        \/ Endpoint_Release(t)
        \/ ShutdownEndpoint_Call(t)
        \/ ShutdownEndpoint_Lock(t)
        \/ ShutdownEndpoint_Body(t)
        \/ SetEndpoint_Call(t)
        \/ SetEndpoint_Lock(t)
        \/ SetEndpoint_Body(t)
        \/ ConnectEndpoint_Call(t)
        \/ ConnectEndpoint_Lock(t)
        \/ ConnectEndpoint_Check(t)
        \/ ConnectEndpoint_ParseProxy(t)
        \/ ConnectEndpoint_TcpConnect(t)
        \/ ConnectEndpoint_SendGreeting(t)
        \/ ConnectEndpoint_ReadGreeting(t)
        \/ ConnectEndpoint_CheckGreeting(t)
        \/ ConnectEndpoint_SendRequest(t)
        \/ ConnectEndpoint_ReadHeader(t)
        \/ ConnectEndpoint_CheckHeader(t)
        \/ ConnectEndpoint_ReadRelayAddr(t)
        \/ ConnectEndpoint_ReadRelayPort(t)
        \/ ConnectEndpoint_DropStream(t)
        \/ ConnectEndpoint_NewRelaySocket(t)
        \/ ConnectEndpoint_SetReuse(t)
        \/ ConnectEndpoint_Bind(t)
        \/ ConnectEndpoint_UdpConnect(t)
        \/ ConnectEndpoint_Direct(t)
        \/ ConnectEndpoint_SetNonblocking(t)
        \/ ConnectEndpoint_SetMark(t)
        \/ ConnectEndpoint_Store(t)
        \/ Return(t)

Spec == Init /\ [][Next]_vars

\* ------------------------------------------------------------------ connects only

\* The steps of connect_endpoint under the lock.
ConnectEndpoint_Steps(t) ==
    \/ ConnectEndpoint_Check(t)
    \/ ConnectEndpoint_ParseProxy(t)
    \/ ConnectEndpoint_TcpConnect(t)
    \/ ConnectEndpoint_SendGreeting(t)
    \/ ConnectEndpoint_ReadGreeting(t)
    \/ ConnectEndpoint_CheckGreeting(t)
    \/ ConnectEndpoint_SendRequest(t)
    \/ ConnectEndpoint_ReadHeader(t)
    \/ ConnectEndpoint_CheckHeader(t)
    \/ ConnectEndpoint_ReadRelayAddr(t)
    \/ ConnectEndpoint_ReadRelayPort(t)
    \/ ConnectEndpoint_DropStream(t)
    \/ ConnectEndpoint_NewRelaySocket(t)
    \/ ConnectEndpoint_SetReuse(t)
    \/ ConnectEndpoint_Bind(t)
    \/ ConnectEndpoint_UdpConnect(t)
    \/ ConnectEndpoint_Direct(t)
    \/ ConnectEndpoint_SetNonblocking(t)
    \/ ConnectEndpoint_SetMark(t)
    \/ ConnectEndpoint_Store(t)

\* The threads call connect_endpoint, and nothing else, on a Peer that was
\* built with an endpoint address.
InitConnect ==
    /\ \E a \in PeerAddrs : New(Some(a), << >>)
    /\ parse = NoParse

NextConnect ==
    \E t \in Threads :
        \/ ConnectEndpoint_Call(t)
        \/ ConnectEndpoint_Lock(t)
        \/ ConnectEndpoint_Steps(t)
        \/ Return(t)

SpecConnect == InitConnect /\ [][NextConnect]_vars

\* ------------------------------------------------------------------ the request

\* One thread calls connect_endpoint through a SOCKS5 proxy with every port a
\* u16 holds, up to the point where the UDP-ASSOCIATE request is written.
InitRequest ==
    /\ New(Some(V4(<<10, 0, 0, 1>>, 51820)), << >>)
    /\ parse = NoParse

Request_Lock ==
    ConnectEndpoint_LockWith("ctl", 0..MaxPort, {None},
        { Some([proxy_type |-> "socks5", address |-> "127.0.0.1:1080"]) })

NextRequest ==
    \/ ConnectEndpoint_Call("ctl")
    \/ Request_Lock
    \/ ConnectEndpoint_Check("ctl")
    \/ ConnectEndpoint_ParseProxy("ctl")
    \/ ConnectEndpoint_TcpConnect("ctl")
    \/ ConnectEndpoint_SendGreeting("ctl")
    \/ ConnectEndpoint_ReadGreeting("ctl")
    \/ ConnectEndpoint_CheckGreeting("ctl")
    \/ ConnectEndpoint_SendRequest("ctl")
    \/ Return("ctl")

SpecRequest == InitRequest /\ [][NextRequest]_vars

\* ------------------------------------------------------------------ allowed IPs

\* endpoint(), shutdown_endpoint and set_endpoint by thread t.
Endpoint_Steps(t) ==
    \/ Endpoint_Call(t)
    \/ Endpoint_Read(t)
    \/ Endpoint_Release(t)
    \/ ShutdownEndpoint_Call(t)
    \/ ShutdownEndpoint_Lock(t)
    \/ ShutdownEndpoint_Body(t)
    \/ SetEndpoint_Call(t)
    \/ SetEndpoint_Lock(t)
    \/ SetEndpoint_Body(t)

\* A Peer built from any of the lists, with or without an endpoint address.
InitAllowed ==
    /\ \E endpoint \in {None} \cup { Some(a) : a \in PeerAddrs },
          ips \in AllowedLists :
         New(endpoint, ips)
    /\ parse = NoParse

\* One thread runs the endpoint operations in any order.
NextAllowed ==
    \/ Endpoint_Steps("ctl")
    \/ ConnectEndpoint_Call("ctl")
    \/ ConnectEndpoint_Lock("ctl")
    \/ ConnectEndpoint_Steps("ctl")
    \/ Return("ctl")

SpecAllowed == InitAllowed /\ [][NextAllowed]_vars

\* ------------------------------------------------------------------ progress

\* Two threads run every operation; connect_endpoint goes direct or through
\* a SOCKS5 proxy.
InitLive ==
    /\ \E endpoint \in {None, Some(V4(<<10, 0, 0, 1>>, 51820))} :
         New(endpoint, << >>)
    /\ parse = NoParse

Live_ConnectLock(t) ==
    ConnectEndpoint_LockWith(t, {258}, {Some(51)},
        { None, Some([proxy_type |-> "socks5", address |-> "127.0.0.1:1080"]) })

NextLive ==
    \E t \in Threads :
        \/ Endpoint_Steps(t)
        \/ ConnectEndpoint_Call(t)
        \/ Live_ConnectLock(t)
        \/ ConnectEndpoint_Steps(t)
        \/ Return(t)

\* What a thread does once it holds a guard: each step of a mutator's body,
\* every proxy I/O step included, completes (with data or with an error), a
\* mutator returns, and the caller of endpoint() drops its guard.
Running(t) ==
    \/ ShutdownEndpoint_Body(t)
    \/ SetEndpoint_Body(t)
    \/ ConnectEndpoint_Steps(t)
    \/ Return(t)
    \/ Endpoint_Release(t)

\* The lock acquisitions. parking_lot's RwLock hands the lock over fairly in
\* the end: a thread that waits while the lock is free again and again gets it.
Locking(t) ==
    \/ Endpoint_Read(t)
    \/ ShutdownEndpoint_Lock(t)
    \/ SetEndpoint_Lock(t)
    \/ Live_ConnectLock(t)

Fairness == \A t \in Threads : WF_vars(Running(t)) /\ SF_vars(Locking(t))

SpecLive == InitLive /\ [][NextLive]_vars /\ Fairness

\* ------------------------------------------------------------------ parsing

\* s.parse::<AllowedIP>() for the text in parse.input
FromStr_Call ==
    /\ parse.out = NoResult
    /\ parse' = [parse EXCEPT !.out = FromStr(parse.input)]
    /\ UNCHANGED <<addr, conn, socks, nsock, writer, readers, pc, loc,
                   allowed_ips, new_ips>>

\* A configuration loader parses one text into an AllowedIP.
InitParse ==
    /\ New(None, << >>)
    /\ \E s \in ParseInputs : parse = [input |-> s, out |-> NoResult]

NextParse == FromStr_Call

SpecParse == InitParse /\ [][NextParse]_vars

\* ------------------------------------------------------------------ properties

\* The endpoint a thread saw when it took the lock.
PreAddr(t) == loc[t].pre[1]
PreConn(t) == loc[t].pre[2]

\* Thread t is about to return from op with the result in loc[t].ret.
Returns(t, op) ==
    /\ loc[t].op = op
    /\ pc[t] \in {"se_ret", "sh_ret", "ce_ret"}

\* Thread t is about to return Ok from op.
ReturnsOk(t, op) == Returns(t, op) /\ loc[t].ret.kind = "Ok"

\* ---- C1

\* conn is Some only with addr Some, and the stored socket is open, not shut
\* down, and was created by a call that read the current addr; every socket
\* still open was created for the current addr.
C1_ConnMatchesAddr ==
    /\ IsSome(conn) =>
         /\ IsSome(addr)
         /\ socks[Unwrap(conn)].st = "open"
         /\ socks[Unwrap(conn)].shut = "none"
         /\ socks[Unwrap(conn)].target = addr
    /\ \A s \in 1..MaxSocks : socks[s].st = "open" => socks[s].target = addr

\* A step that changes addr while conn is Some removes the socket from conn,
\* shut down in both directions and dropped.
C1_AddrChangeDropsConn ==
    (addr' # addr /\ IsSome(conn)) =>
        /\ conn' = None
        /\ socks'[Unwrap(conn)].shut = "both"
        /\ socks'[Unwrap(conn)].st = "closed"

\* C1: in every state reachable from Peer::new by any interleaving of
\* set_endpoint, connect_endpoint and shutdown_endpoint, conn is Some only if
\* addr is Some and the stored socket was established while addr had its
\* current value, and a socket that was in conn when addr changed has been shut
\* down and removed.
C1_EndpointConsistent == []C1_ConnMatchesAddr /\ [][C1_AddrChangeDropsConn]_vars

\* A Connected endpoint beside a socket that an address change retired.
C1_Witness ==
    /\ IsSome(conn)
    /\ \E s \in 1..MaxSocks :
         /\ socks[s].st = "closed"
         /\ socks[s].shut = "both"
         /\ IsSome(socks[s].target)
         /\ socks[s].target # addr

\* ---- C2

\* A connect_endpoint that found conn Some returns Err("Connected") having
\* changed nothing, opened no TCP connection and created no socket.
C2_Refused(t) ==
    (Returns(t, "connect_endpoint") /\ IsSome(PreConn(t))) =>
        /\ loc[t].ret = Err("Connected")
        /\ <<addr, conn>> = loc[t].pre
        /\ loc[t].ntcp = 0
        /\ loc[t].stream = "none"
        /\ loc[t].sent = << >>
        /\ loc[t].udp = 0

\* A connect_endpoint that succeeds leaves conn Some.
C2_SuccessConnects(t) ==
    ReturnsOk(t, "connect_endpoint") => conn = Some(loc[t].ret.sock)

\* Once conn is Some, only a set_endpoint or shutdown_endpoint body changes it.
C2_OnlyResetClears ==
    (IsSome(conn) /\ conn' # conn) =>
        \E t \in Threads : /\ pc[t] \in {"se_body", "sh_body"}
                           /\ pc'[t] \in {"se_ret", "sh_ret"}

\* C2: after a connect_endpoint has succeeded, a next connect_endpoint with no
\* set_endpoint or shutdown_endpoint in between fails with Err("Connected") for
\* every port, fwmark and proxy, leaves addr and conn unchanged and opens no
\* TCP connection.
C2_SecondConnectRefused ==
    /\ [](\A t \in Threads : C2_Refused(t) /\ C2_SuccessConnects(t))
    /\ [][C2_OnlyResetClears]_vars

\* A connect_endpoint through a SOCKS5 proxy refused on a Connected endpoint.
C2_Witness ==
    \E t \in Threads :
        /\ Returns(t, "connect_endpoint")
        /\ loc[t].ret = Err("Connected")
        /\ IsSome(conn)
        /\ loc[t].proxy = Some([proxy_type |-> "socks5", address |-> "127.0.0.1:1080"])

\* ---- C3

\* set_endpoint(addr2) on an endpoint Connected for another address.
C3_SetShutsOld(t) ==
    (/\ ReturnsOk(t, "set_endpoint")
     /\ IsSome(PreConn(t))
     /\ PreAddr(t) # loc[t].arg) =>
        /\ conn = None
        /\ addr = loc[t].arg
        /\ socks[Unwrap(PreConn(t))].shut = "both"
        /\ socks[Unwrap(PreConn(t))].st = "closed"

\* connect_endpoint answers "Connected" only on a Connected endpoint, and a
\* success stores a socket created by this call for the current addr.
C3_ConnectIsFresh(t) ==
    /\ (Returns(t, "connect_endpoint") /\ loc[t].ret = Err("Connected"))
          => IsSome(PreConn(t))
    /\ ReturnsOk(t, "connect_endpoint") =>
          /\ conn = Some(loc[t].udp)
          /\ loc[t].ret.sock = loc[t].udp
          /\ socks[loc[t].udp].st = "open"
          /\ socks[loc[t].udp].shut = "none"
          /\ socks[loc[t].udp].target = addr

\* C3: set_endpoint(addr2) after a successful connect_endpoint for addr1 # addr2
\* shuts the old socket down in both directions, leaves conn None and addr
\* addr2; a following connect_endpoint is not refused and, succeeding, stores a
\* newly created socket, not the old one.
C3_MigrateThenReconnect ==
    \A t \in Threads : C3_SetShutsOld(t) /\ C3_ConnectIsFresh(t)

\* A connect_endpoint succeeded after set_endpoint retired the socket of
\* another address.
C3_Witness ==
    \E t \in Threads :
        /\ ReturnsOk(t, "connect_endpoint")
        /\ \E s \in 1..MaxSocks :
             /\ s # loc[t].udp
             /\ socks[s].st = "closed"
             /\ socks[s].shut = "both"
             /\ IsSome(socks[s].target)
             /\ socks[s].target # addr

\* ---- C4

\* The body of set_endpoint(a) run with addr = Some(a).
C4_SameAddrStep ==
    \A t \in Threads :
        (pc[t] = "se_body" /\ pc'[t] = "se_ret" /\ addr = loc[t].arg) =>
            /\ UNCHANGED <<addr, conn, socks, nsock>>
            /\ loc'[t].ret = Ok(0)
            /\ loc'[t].old = 0

\* C4: set_endpoint(addr) with addr already the current address changes
\* nothing: addr stays, an open conn is neither shut down nor cleared.
C4_SameAddrIsNoop == [][C4_SameAddrStep]_vars

\* set_endpoint returned on a Connected endpoint whose address it was given.
C4_Witness ==
    \E t \in Threads :
        /\ Returns(t, "set_endpoint")
        /\ PreAddr(t) = loc[t].arg
        /\ IsSome(PreConn(t))
        /\ IsSome(conn)

\* ---- C5

\* The socket is configured before it is stored.
C5_ConfiguredBeforeStore(t) ==
    pc[t] = "ce_store" =>
        /\ conn = None
        /\ socks[loc[t].udp].nonblocking
        /\ (MarkSupported /\ IsSome(loc[t].fwmark))
              => socks[loc[t].udp].mark = loc[t].fwmark

\* What a successful connect_endpoint leaves.
C5_Connected(t) ==
    ReturnsOk(t, "connect_endpoint") =>
        /\ PreConn(t) = None
        /\ IsSome(PreAddr(t))
        /\ addr = PreAddr(t)
        /\ loc[t].ret.sock # 0
        /\ conn = Some(loc[t].ret.sock)
        /\ socks[loc[t].ret.sock].st = "open"
        /\ socks[loc[t].ret.sock].nonblocking
        /\ (MarkSupported /\ IsSome(loc[t].fwmark))
              => socks[loc[t].ret.sock].mark = loc[t].fwmark

\* C5: a connect_endpoint that succeeds on a Known-Unconnected endpoint leaves
\* addr unchanged and conn holding the socket that is returned, set
\* nonblocking, and marked with fwmark (where marks are supported) before it
\* is stored.
C5_ConnectStoresReturnedSocket ==
    \A t \in Threads : C5_ConfiguredBeforeStore(t) /\ C5_Connected(t)

\* A connect_endpoint with a fwmark succeeded.
C5_Witness ==
    \E t \in Threads :
        /\ ReturnsOk(t, "connect_endpoint")
        /\ IsSome(loc[t].fwmark)
        /\ IsSome(conn)

\* ---- C6

\* The body of shutdown_endpoint.
C6_ShutdownStep ==
    \A t \in Threads :
        (pc[t] = "sh_body" /\ pc'[t] = "sh_ret") =>
            IF IsSome(conn)
            THEN /\ conn' = None
                 /\ addr' = addr
                 /\ socks'[Unwrap(conn)].st = "closed"
                 /\ loc'[t].ret.kind = "Ok" => socks'[Unwrap(conn)].shut = "both"
            ELSE /\ UNCHANGED <<addr, conn, socks, nsock>>
                 /\ loc'[t].ret = Ok(0)

\* C6: shutdown_endpoint on a Connected endpoint shuts the stored socket down,
\* sets conn to None and leaves addr unchanged; with conn None it changes
\* nothing and shuts nothing down.
C6_ShutdownClearsConn == [][C6_ShutdownStep]_vars

\* shutdown_endpoint returned from a Connected endpoint.
C6_Witness ==
    \E t \in Threads :
        /\ ReturnsOk(t, "shutdown_endpoint")
        /\ IsSome(PreConn(t))
        /\ conn = None
        /\ IsSome(addr)
        /\ socks[loc[t].old].shut = "both"

\* ---- C7

\* Thread t is about to return Ok from connect_endpoint after the SOCKS5
\* exchange: greeting reply [5,0], header [5,0,rsv,atyp] with atyp 1 or 4.
C7_RelayedOk(t) ==
    /\ ReturnsOk(t, "connect_endpoint")
    /\ IsSome(loc[t].proxy)
    /\ Unwrap(loc[t].proxy).proxy_type = "socks5"
    /\ loc[t].resp = <<5, 0>>
    /\ Len(loc[t].hdr) = 4
    /\ loc[t].hdr[1] = 5
    /\ loc[t].hdr[2] = 0
    /\ loc[t].hdr[4] \in {1, 4}

\* The relay address the reply bytes spell: address bytes as they came, port
\* big-endian.
C7_ReplyAddr(t) ==
    [fam |-> IF loc[t].hdr[4] = 1 THEN "V4" ELSE "V6",
     ip |-> loc[t].addr_bytes,
     port |-> loc[t].port_bytes[1] * 256 + loc[t].port_bytes[2]]

\* The returned socket has the relay's family, is bound to the wildcard
\* address on the caller's port and is connected to the relay of the reply.
C7_RelaySocketFollowsReply ==
    \A t \in Threads :
        C7_RelayedOk(t) =>
            LET s == socks[loc[t].ret.sock]
                four == loc[t].hdr[4] = 1 IN
            /\ Len(loc[t].addr_bytes) = (IF four THEN 4 ELSE 16)
            /\ s.domain = (IF four THEN "IPV4" ELSE "IPV6")
            /\ s.proto = "UDP"
            /\ s.reuse
            /\ s.bind = Some([fam |-> IF four THEN "V4" ELSE "V6",
                              ip |-> [i \in 1..(IF four THEN 4 ELSE 16) |-> 0],
                              port |-> loc[t].port])
            /\ s.peer = Some(C7_ReplyAddr(t))

\* C7: with proxy type "socks5" and replies [5,0], [5,0,rsv,atyp], address
\* and port, connect_endpoint returns a UDP (datagram) socket of the relay
\* address's family, bound to the wildcard address on the caller's port and
\* connected to exactly the relay address and big-endian port of the reply.
C7_ReturnsUdpSocketToRelay ==
    /\ C7_RelaySocketFollowsReply
    /\ \A t \in Threads :
         C7_RelayedOk(t) => socks[loc[t].ret.sock].ty = "DGRAM"

\* ---- C8

\* C8: with proxy type "socks5", a 2-byte greeting reply other than [5,0]
\* makes connect_endpoint fail with Connect("SOCKS5 handshake failed"); no
\* UDP-ASSOCIATE request is sent, no UDP socket created, conn stays None.
C8_BadGreetingFails ==
    \A t \in Threads :
        (Len(loc[t].resp) = 2 /\ loc[t].resp # <<5, 0>>) =>
            /\ pc[t] \in {"ce_greet_check", "ce_ret"}
            /\ loc[t].sent = <<5, 1, 0>>
            /\ loc[t].nread = 2
            /\ loc[t].udp = 0
            /\ conn = None
            /\ pc[t] = "ce_ret" => loc[t].ret = Err("SOCKS5 handshake failed")

\* connect_endpoint returns after the proxy asked for an authentication method.
C8_Witness ==
    \E t \in Threads :
        /\ Returns(t, "connect_endpoint")
        /\ loc[t].resp = <<5, 255>>
        /\ loc[t].ret.kind = "Err"

\* ---- C9

\* C9: with proxy type "socks5", a 4-byte reply header with byte 0 # 5 or
\* byte 1 # 0 makes connect_endpoint fail with a Connect error carrying byte 1
\* (REP) whatever the ATYP byte: no address byte is read, conn stays None.
C9_BadReplyFailsWithRep ==
    \A t \in Threads :
        (Len(loc[t].hdr) = 4 /\ (loc[t].hdr[1] # 5 \/ loc[t].hdr[2] # 0)) =>
            /\ pc[t] \in {"ce_hdr_check", "ce_ret"}
            /\ loc[t].nread = 6
            /\ loc[t].addr_bytes = << >>
            /\ loc[t].udp = 0
            /\ conn = None
            /\ pc[t] = "ce_ret" =>
                 /\ loc[t].ret.kind = "Err"
                 /\ loc[t].ret.msg =
                      "SOCKS5 UDP ASSOCIATE failed: REP=" \o ToString(loc[t].hdr[2])

\* connect_endpoint returns after a refusal (REP 7) with an unknown ATYP.
C9_Witness ==
    \E t \in Threads :
        /\ Returns(t, "connect_endpoint")
        /\ loc[t].hdr = <<5, 7, 0, 7>>
        /\ loc[t].ret.msg = "SOCKS5 UDP ASSOCIATE failed: REP=7"

\* ---- C10

\* C10: with proxy type "socks5", a success header whose ATYP is neither 1 nor
\* 4 makes connect_endpoint fail with the unsupported-address-type error; no
\* further byte is read, no UDP socket created, conn stays None.
C10_UnsupportedAtypFails ==
    \A t \in Threads :
        (/\ Len(loc[t].hdr) = 4
         /\ loc[t].hdr[1] = 5
         /\ loc[t].hdr[2] = 0
         /\ loc[t].hdr[4] \notin {1, 4}) =>
            /\ pc[t] \in {"ce_hdr_check", "ce_relay_addr", "ce_ret"}
            /\ loc[t].nread = 6
            /\ loc[t].udp = 0
            /\ conn = None
            /\ pc[t] = "ce_ret" =>
                 loc[t].ret = Err("Unsupported address type in SOCKS5 response")

\* connect_endpoint returns after a success header with ATYP 3 (domain name).
C10_Witness ==
    \E t \in Threads :
        /\ Returns(t, "connect_endpoint")
        /\ loc[t].hdr = <<5, 0, 0, 3>>
        /\ loc[t].ret.kind = "Err"

\* ---- C11

\* Thread t is about to return from connect_endpoint called with a proxy
\* whose type is not "socks5".
C11_Fallback(t) ==
    /\ Returns(t, "connect_endpoint")
    /\ IsSome(loc[t].proxy)
    /\ Unwrap(loc[t].proxy).proxy_type # "socks5"

\* Such a call opens no TCP connection and exchanges nothing with the proxy,
\* fails only as a call without proxy can, and on success has stored the
\* socket a call without proxy creates: of the family of the endpoint's addr,
\* protocol UDP, nonblocking, marked when a fwmark was given.
C11_FallbackSkipsProxy ==
    \A t \in Threads :
        C11_Fallback(t) =>
            /\ loc[t].ntcp = 0
            /\ loc[t].stream = "none"
            /\ loc[t].sent = << >>
            /\ loc[t].nread = 0
            /\ loc[t].ret.kind = "Err" => loc[t].ret.msg \in {"Connected", "io"}
            /\ loc[t].ret.kind = "Ok" =>
                 /\ conn = Some(loc[t].ret.sock)
                 /\ addr = PreAddr(t)
                 /\ socks[loc[t].ret.sock] =
                      [NewSock(DomainFor(Unwrap(addr)), addr) EXCEPT
                          !.nonblocking = TRUE,
                          !.mark = IF MarkSupported THEN loc[t].fwmark ELSE None]

\* C11: connect_endpoint with a proxy whose type is not "socks5" opens no TCP
\* connection, does not fail because of the proxy, and ends Connected with a
\* direct UDP (datagram) socket bound to the endpoint's current addr, as a
\* call with no proxy does.
C11_FallbackIsDirectUdp ==
    /\ C11_FallbackSkipsProxy
    /\ \A t \in Threads :
         (C11_Fallback(t) /\ loc[t].ret.kind = "Ok") =>
             /\ socks[loc[t].ret.sock].ty = "DGRAM"
             /\ socks[loc[t].ret.sock].peer = addr

\* ---- C12

\* The address whose family the socket of thread t is created for: the relay
\* on the SOCKS5 path, the endpoint's addr otherwise.
C12_Target(t) ==
    IF IsSome(loc[t].proxy) /\ Unwrap(loc[t].proxy).proxy_type = "socks5"
    THEN Unwrap(loc[t].relay)
    ELSE Unwrap(loc[t].target)

\* On every path the socket a call has created, while it is open, has the
\* family of its target and protocol UDP.
C12_FamilyFollowsTarget ==
    \A t \in Threads :
        (loc[t].udp # 0 /\ socks[loc[t].udp].st = "open") =>
            /\ socks[loc[t].udp].domain = DomainFor(C12_Target(t))
            /\ socks[loc[t].udp].domain =
                 (IF C12_Target(t).fam = "V4" THEN "IPV4" ELSE "IPV6")
            /\ socks[loc[t].udp].proto = "UDP"

\* C12: every socket connect_endpoint creates, on the SOCKS5 path, on the
\* fallback path and on the no-proxy path, is a datagram (UDP) socket of the
\* address family of its target.
C12_EverySocketIsDatagram ==
    /\ C12_FamilyFollowsTarget
    /\ \A i \in 1..MaxSocks :
         socks[i].st = "open" => socks[i].ty = "DGRAM"

\* ---- C13

\* The positions of a connect_endpoint after its greeting was written in
\* full, and those after its request was written in full.
C13_GreetingWritten ==
    {"ce_greet_read", "ce_greet_check", "ce_req"}
C13_RequestWritten ==
    {"ce_hdr_read", "ce_hdr_check", "ce_relay_addr", "ce_relay_port", "ce_close",
     "ce_sock", "ce_reuse", "ce_bind", "ce_udp_connect", "ce_nonblock", "ce_mark",
     "ce_store"}

\* C13: with proxy type "socks5" the bytes written on the TCP connection are
\* the greeting [5,1,0] and then the 10-byte request [5,3,0,1,0,0,0,0,hi,lo]
\* with hi*256 + lo the caller's port, for every port 0..65535, and nothing
\* else: what was written so far is always a prefix of these 13 bytes, all 3
\* once the greeting is sent and all 13 once the request is sent, and nothing
\* where no TCP connection was made.
C13_WritesGreetingThenRequest ==
    \A t \in Threads :
        LET w == loc[t].sent
            n == Len(w) IN
        /\ n <= 13
        /\ w = Prefix(<<5, 1, 0, 5, 3, 0, 1, 0, 0, 0, 0>>, IF n < 11 THEN n ELSE 11)
              \o SubSeq(w, 12, n)
        /\ n >= 12 => /\ w[12] \in 0..255
                      /\ w[12] * 256 <= loc[t].port
                      /\ loc[t].port < w[12] * 256 + 256
        /\ n = 13 => /\ w[13] \in 0..255
                     /\ w[12] * 256 + w[13] = loc[t].port
        /\ pc[t] \in C13_GreetingWritten => n = 3
        /\ (pc[t] \in C13_RequestWritten /\ loc[t].stream # "none") => n = 13
        /\ loc[t].stream = "none" => n = 0

\* The request for port 258, whose two bytes differ, has been written in full.
C13_Witness ==
    \E t \in Threads :
        /\ pc[t] = "ce_hdr_read"
        /\ loc[t].port = 258
        /\ loc[t].sent = <<5, 1, 0, 5, 3, 0, 1, 0, 0, 0, 0, 1, 2>>

\* ---- C14

\* The positions of set_endpoint, shutdown_endpoint and connect_endpoint
\* between taking the write guard and dropping it.
C14_Mutating ==
    {"se_body", "se_ret", "sh_body", "sh_ret", "ce_check", "ce_parse", "ce_tcp",
     "ce_greet", "ce_greet_read", "ce_greet_check", "ce_req", "ce_hdr_read",
     "ce_hdr_check", "ce_relay_addr", "ce_relay_port", "ce_close", "ce_sock",
     "ce_reuse", "ce_bind", "ce_udp_connect", "ce_direct", "ce_nonblock",
     "ce_mark", "ce_store", "ce_ret"}

\* A mutator in progress holds the write guard, no reader holds a guard and
\* no other mutator is in progress; a reader holding its guard sees the
\* endpoint as it is, with no mutation in progress.
C14_GuardHeld ==
    \A t \in Threads :
        /\ pc[t] \in C14_Mutating =>
             /\ writer = Some(t)
             /\ readers = {}
             /\ \A u \in Threads \ {t} : pc[u] \notin C14_Mutating \cup {"ep_held"}
        /\ pc[t] = "ep_held" =>
             /\ t \in readers
             /\ writer = None
             /\ loc[t].pre = <<addr, conn>>

\* The endpoint is written only by a step of the thread that holds the write
\* guard, from inside its mutation; while a mutator is in progress no step of
\* another thread changes the endpoint or the guard.
C14_WriterStep ==
    /\ <<addr, conn>>' # <<addr, conn>> =>
         /\ IsSome(writer)
         /\ pc[Unwrap(writer)] \in C14_Mutating
         /\ pc'[Unwrap(writer)] # pc[Unwrap(writer)]
    /\ \A t \in Threads :
         (pc[t] \in C14_Mutating /\ pc'[t] = pc[t]) =>
             /\ UNCHANGED <<addr, conn, writer, readers>>
             /\ loc'[t] = loc[t]

\* C14: set_endpoint, connect_endpoint and shutdown_endpoint hold the
\* exclusive lock from their first read of the endpoint to their last write,
\* the SOCKS5 handshake included: while one is in progress no endpoint()
\* reader holds the lock and no other mutator runs, and an endpoint() snapshot
\* is never taken inside a mutation.
C14_MutatorsHoldExclusiveLock == []C14_GuardHeld /\ [][C14_WriterStep]_vars

\* A connect_endpoint waits for the proxy's reply header while the other
\* thread waits in endpoint() for the lock.
C14_Witness ==
    /\ pc["ctl"] = "ce_hdr_read"
    /\ pc["rx"] = "ep_lock"
    /\ writer = Some("ctl")

\* ---- C17

\* Thread t is in a connect_endpoint through a SOCKS5 proxy.
C17_Socks5(t) ==
    /\ loc[t].op = "connect_endpoint"
    /\ IsSome(loc[t].proxy)
    /\ Unwrap(loc[t].proxy).proxy_type = "socks5"

\* The steps of a whole connect_endpoint through a SOCKS5 proxy, in order.
C17_Steps(t) ==
    <<"check", "parse_proxy_addr", "tcp_connect", "send_greeting",
      "read_greeting", "check_greeting", "send_request", "read_header",
      "check_header", "read_relay_addr", "read_relay_port", "close_tcp",
      "socket", "set_reuse_address", "bind", "connect", "set_nonblocking">>
    \o (IF MarkSupported /\ IsSome(loc[t].fwmark) THEN <<"set_mark">> ELSE << >>)
    \o <<"store">>

\* C17: on the SOCKS5 path the steps happen in this order, none skipped or
\* repeated: TCP connect, greeting sent, greeting reply read and validated,
\* request sent, reply header read and validated, relay address read, TCP
\* connection closed, UDP socket created, address reuse, bind, UDP connect,
\* socket stored. The request is never sent before a valid greeting reply and
\* the UDP socket is never created while the TCP connection is open.
C17_StepsInOrder ==
    \A t \in Threads :
        C17_Socks5(t) =>
            LET l == loc[t]
                k == Len(l.trace) IN
            /\ k <= Len(C17_Steps(t))
            /\ l.trace = Prefix(C17_Steps(t), k)
            /\ ReturnsOk(t, "connect_endpoint") =>
                 /\ l.trace = C17_Steps(t)
                 /\ conn = Some(l.udp)
            /\ l.ntcp = (IF k >= 3 THEN 1 ELSE 0)
            /\ l.stream = "open" => (k >= 3 /\ k < 12)
            /\ Len(l.sent) > 0 => l.stream # "none"
            /\ Len(l.resp) > 0 => Len(l.sent) >= 3
            /\ Len(l.sent) > 3 => l.resp = <<5, 0>>
            /\ Len(l.hdr) > 0 => Len(l.sent) = 13
            /\ Len(l.addr_bytes) > 0 => (l.hdr[1] = 5 /\ l.hdr[2] = 0)
            /\ IsSome(l.relay) => Len(l.addr_bytes) > 0
            /\ l.udp # 0 => (l.stream = "closed" /\ IsSome(l.relay))
            /\ (l.udp # 0 /\ socks[l.udp].st = "open") =>
                 /\ IsSome(socks[l.udp].bind) => socks[l.udp].reuse
                 /\ IsSome(socks[l.udp].peer) => IsSome(socks[l.udp].bind)
                 /\ socks[l.udp].nonblocking => IsSome(socks[l.udp].peer)
                 /\ conn = Some(l.udp) => socks[l.udp].nonblocking

\* A connect_endpoint through a SOCKS5 proxy with a fwmark is about to return
\* Ok after all its steps.
C17_Witness ==
    \E t \in Threads :
        /\ C17_Socks5(t)
        /\ ReturnsOk(t, "connect_endpoint")
        /\ IsSome(loc[t].fwmark)
        /\ Len(loc[t].trace) = 19

\* ---- C18

\* Thread t is about to return an error from connect_endpoint.
C18_ReturnsErr(t) ==
    /\ Returns(t, "connect_endpoint")
    /\ loc[t].ret.kind = "Err"

C18_ErrorReturn ==
    \A t \in Threads :
        /\ loc[t].ntcp <= 1
        /\ C18_ReturnsErr(t) =>
             /\ <<addr, conn>> = loc[t].pre
             /\ loc[t].ret = Err("Connected") <=> IsSome(PreConn(t))
             /\ loc[t].ret # Err("Connected") => conn = None
             /\ loc[t].stream # "open"
             /\ loc[t].udp # 0 => socks[loc[t].udp].st = "closed"

\* The return of a connect_endpoint drops the write guard and leaves the
\* endpoint alone: the lock is free for the next caller.
C18_ReturnStep ==
    \A t \in Threads :
        (pc[t] = "ce_ret" /\ pc'[t] = "idle") =>
            /\ writer = Some(t)
            /\ writer' = None
            /\ readers' = {}
            /\ UNCHANGED <<addr, conn>>

C19_Returned ==
    { i \in 1..MaxSocks :
        /\ socks[i].st = "open"
        /\ \A t \in Threads : loc[t].udp = i => pc[t] = "ce_ret" }

\* Every socket a call returned is the one conn holds, so at most one call
\* has succeeded; a call that found conn Some is refused with
\* AlreadyConnected and leaves that socket in place; a call that succeeds
\* found conn None.
C19_OneSuccess ==
    /\ \A i \in C19_Returned : conn = Some(i)
    /\ Cardinality(C19_Returned) <= 1
    /\ \A t \in Threads :
         Returns(t, "connect_endpoint") =>
             /\ IsSome(PreConn(t)) =>
                  /\ loc[t].ret = Err("Connected")
                  /\ conn = PreConn(t)
                  /\ loc[t].udp = 0
             /\ loc[t].ret.kind = "Ok" =>
                  /\ PreConn(t) = None
                  /\ conn = Some(loc[t].ret.sock)

\* A stored socket is never replaced, and conn is written only by the thread
\* that holds the write guard.
C19_NoOverwrite ==
    /\ IsSome(conn) => conn' = conn
    /\ conn' # conn => (writer = Some("rx") \/ writer = Some("ctl"))

\* C19: when several threads call connect_endpoint concurrently on a Peer in
\* state Known-Unconnected, with no set_endpoint or shutdown_endpoint between,
\* at most one call succeeds and stores its socket; every call that runs after
\* it fails with AlreadyConnected; no call overwrites a stored socket.
C19_ConcurrentConnects == []C19_OneSuccess /\ [][C19_NoOverwrite]_vars

\* One thread is refused with AlreadyConnected after the other one's call
\* succeeded, and that other thread is calling again.
C19_Witness ==
    \E t \in Threads, u \in Threads :
        /\ t # u
        /\ Returns(t, "connect_endpoint")
        /\ loc[t].ret = Err("Connected")
        /\ pc[u] = "ce_lock"
        /\ Cardinality(C19_Returned) = 1

\* ---- C15

\* The places of '/' in the input.
C15_Slashes == { i \in 1..Len(parse.input) : parse.input[i] = "/" }

\* The text before and the text after the only '/'.
C15_Before == SubSeq(parse.input, 1, (CHOOSE i \in C15_Slashes : TRUE) - 1)
C15_After ==
    SubSeq(parse.input, (CHOOSE i \in C15_Slashes : TRUE) + 1, Len(parse.input))

\* The text is an unsigned decimal integer (an optional '+', then digits)
\* and its value is at most max, for max below 1000.
C15_UnsignedAtMost(txt, max) ==
    LET d == IF txt # << >> /\ txt[1] = "+" THEN Tail(txt) ELSE txt IN
    /\ Len(d) > 0
    /\ \A i \in 1..Len(d) : IsDigit(d[i])
    /\ \A i \in 1..(Len(d) - 3) : d[i] = "0"
    /\ Decimal(SubSeq(d, IF Len(d) > 3 THEN Len(d) - 2 ELSE 1, Len(d))) <= max

\* The input is two fields around one '/', an IP address and a prefix length
\* within the family's bound.
C15_Valid ==
    /\ Cardinality(C15_Slashes) = 1
    /\ ParseIpAddr(C15_Before) # None
    /\ C15_UnsignedAtMost(C15_After,
                          IF Unwrap(ParseIpAddr(C15_Before)).fam = "V4"
                          THEN 32 ELSE 128)

\* C15: AllowedIP parsing succeeds exactly when the input splits on '/' into
\* exactly two fields, the first an IP address, the second an unsigned integer
\* prefix length that is <= 32 for IPv4 or <= 128 for IPv6; the result is
\* that (addr, cidr) pair; every other input fails with the invalid-format
\* error.
C15_ParseSucceedsIffValid ==
    parse.out # NoResult =>
        IF C15_Valid
        THEN /\ parse.out.kind = "Ok"
             /\ parse.out.val.addr = Unwrap(ParseIpAddr(C15_Before))
             /\ parse.out.val.cidr \in 0..128
             /\ C15_UnsignedAtMost(C15_After, parse.out.val.cidr)
             /\ ~C15_UnsignedAtMost(C15_After, parse.out.val.cidr - 1)
        ELSE parse.out = InvalidFormat

\* "10.0.0.1/32" has been parsed into (10.0.0.1, 32).
C15_Witness ==
    /\ parse.input = <<"1", "0", ".", "0", ".", "0", ".", "1", "/", "3", "2">>
    /\ parse.out = [kind |-> "Ok",
                    val |-> [addr |-> [fam |-> "V4", ip |-> <<10, 0, 0, 1>>],
                             cidr |-> 32]]

\* ---- C16

\* Bit k of an address, counted from 1 at the most significant bit.
C16_Bit(ip, k) == (ip[((k - 1) \div 8) + 1] \div Pow2(7 - ((k - 1) % 8))) % 2

\* The range r covers the address a: same family, same leading r.cidr bits.
C16_Covers(r, a) ==
    /\ r.addr.fam = a.fam
    /\ \A k \in 1..r.cidr : C16_Bit(r.addr.ip, k) = C16_Bit(a.ip, k)

\* C16: for a Peer built from a list of AllowedIP ranges, is_allowed_ip(a) is
\* true exactly when some range of the list covers a, whatever endpoint
\* operations have run since construction; for a Peer built from an empty
\* list is_allowed_ip is false for every address and allowed_ips() yields
\* nothing.
C16_AllowedIffCovered ==
    /\ \A a \in QueryAddrs :
         IsAllowedIp(a) <=> \E i \in 1..Len(new_ips) : C16_Covers(new_ips[i], a)
    /\ new_ips = << >> =>
         /\ \A a \in QueryAddrs : ~IsAllowedIp(a)
         /\ AllowedIpsOf = {}
    /\ new_ips # << >> => AllowedIpsOf # {}

\* A Peer built from 10.0.0.0/8 and 10.1.0.0/16 is Connected after a
\* connect_endpoint; 10.1.2.3 and 10.2.0.1 are allowed, 11.0.0.1 is not.
C16_Witness ==
    /\ Len(new_ips) = 2
    /\ new_ips[2] = Net(Ip4(<<10, 1, 0, 0>>), 16)
    /\ IsSome(conn)
    /\ pc["ctl"] = "idle"
    /\ IsAllowedIp(Ip4(<<10, 1, 2, 3>>))
    /\ IsAllowedIp(Ip4(<<10, 2, 0, 1>>))
    /\ ~IsAllowedIp(Ip4(<<11, 0, 0, 1>>))

\* ---- C20

\* A reader that waits is kept waiting only by a mutator in progress.
C20_BlockedByMutator ==
    \A t \in Threads :
        (pc[t] = "ep_lock" /\ writer # None) =>
            /\ Unwrap(writer) # t
            /\ pc[Unwrap(writer)] \in
                 {"se_body", "se_ret", "sh_body", "sh_ret", "ce_check", "ce_parse",
                  "ce_tcp", "ce_greet", "ce_greet_read", "ce_greet_check", "ce_req",
                  "ce_hdr_read", "ce_hdr_check", "ce_relay_addr", "ce_relay_port",
                  "ce_close", "ce_sock", "ce_reuse", "ce_bind", "ce_udp_connect",
                  "ce_direct", "ce_nonblock", "ce_mark", "ce_store", "ce_ret"}

\* C20: if every proxy I/O step completes and every guard returned by
\* endpoint() is released, every set_endpoint, connect_endpoint and
\* shutdown_endpoint call returns and every waiting endpoint() reader gets
\* the lock; a reader is kept waiting only by a mutator in progress.
C20_CallsReturn ==
    /\ []C20_BlockedByMutator
    /\ \A t \in Threads :
         /\ (pc[t] \in {"se_lock", "sh_lock", "ce_lock"}) ~> (pc[t] = "idle")
         /\ (pc[t] = "ep_lock") ~> (pc[t] = "ep_held")

\* An endpoint() reader waits for the lock while a connect_endpoint waits
\* for the proxy's greeting reply.
C20_Witness ==
    /\ pc["rx"] = "ep_lock"
    /\ pc["ctl"] = "ce_greet_read"
    /\ writer = Some("ctl")
    /\ "rx" \notin readers

====
